---- MODULE Spec2Model ----
(***************************************************************************)
(* A model of the multi-model math solver: the Orchestrator                *)
(* (src/src/orchestrator.py), the ConsistencyAgent                         *)
(* (src/src/agents/consistency_agent.py) and the Summarizer                *)
(* (src/src/summarizer.py).                                                *)
(*                                                                         *)
(* A text is a sequence of tokens.  A token stands for a fixed run of      *)
(* characters: the markers the extraction patterns look for, single        *)
(* digits, the period, white space, and letters.  The regular expressions  *)
(* of the two _extract_final_answer methods are evaluated on these         *)
(* sequences the way Python's re.finditer evaluates them on characters.    *)
(***************************************************************************)
EXTENDS Integers, Sequences, FiniteSets, TLC

----------------------------------------------------------------------------
(* Characters and texts *)

Digits == {"0", "1", "2", "6"}

Spaces == {" ", "\n", "\t"}

IsDigit(c) == c \in Digits

IsSpace(c) == c \in Spaces

DigitVal(c) == CASE c = "0" -> 0 [] c = "1" -> 1 [] c = "2" -> 2 [] c = "6" -> 6

\* len() of the characters a token stands for.
TokLen(c) ==
    CASE c = "Final answer" -> 12
      [] c = "Therefore," -> 10
      [] c = "Thus," -> 5
      [] c = "In conclusion," -> 14
      [] c = "The answer is" -> 13
      [] c = "Area" -> 4
      [] c = "square units" -> 12
      [] c = "\\t" -> 2
      [] c = "QQQ" -> 3
      [] OTHER -> 1

RECURSIVE TextLen(_)
TextLen(t) == IF t = <<>> THEN 0 ELSE TokLen(Head(t)) + TextLen(Tail(t))

Min(S) == CHOOSE x \in S : \A y \in S : x <= y

Max(S) == CHOOSE x \in S : \A y \in S : x >= y

\* The end of the longest run of tokens in S that starts at p (p - 1 when empty).
SpanIn(t, p, S) ==
    LET stops == {i \in p..Len(t) : t[i] \notin S}
    IN  IF stops = {} THEN Len(t) ELSE Min(stops) - 1

\* The end of the longest run of tokens other than c that starts at p.
SpanNot(t, p, c) ==
    LET stops == {i \in p..Len(t) : t[i] = c}
    IN  IF stops = {} THEN Len(t) ELSE Min(stops) - 1

At(t, i) == IF i >= 1 /\ i <= Len(t) THEN t[i] ELSE "<end>"

----------------------------------------------------------------------------
(* The extraction patterns *)

NoMatch == [from |-> 0, to |-> 0]

\* The group ([^\.]+(?:\.[^\n]+)?) matched greedily from p, where t[p] is not
\* a period: the end of the capture.
CaptureEnd(t, p) ==
    LET q == SpanNot(t, p, ".")
    IN  IF At(t, q + 1) = "." /\ q + 2 <= Len(t) /\ t[q + 2] # "\n"
        THEN SpanNot(t, q + 2, "\n")
        ELSE q

\* \s* (minWs = 0) or \s+ (minWs = 1) after position j, followed by the
\* capture group: where the group starts, 0 when the pattern fails.  The
\* white space is taken greedily and given back one character when the
\* group cannot start after it.
CaptureStart(t, j, minWs) ==
    LET w == SpanIn(t, j + 1, Spaces) - j
        n == j + w + 1
    IN  IF w >= minWs /\ n <= Len(t) /\ t[n] # "." THEN n
        ELSE IF w >= 1 /\ w - 1 >= minWs THEN j + w
        ELSE 0

\* The match whose group starts at s (no match when s = 0).
Group(t, s) == IF s = 0 THEN NoMatch ELSE [from |-> s, to |-> CaptureEnd(t, s)]

OrElse(s, alt) == IF s # 0 THEN s ELSE alt

\* The markers of the first five patterns.
Marker(pat) ==
    CASE pat = 1 -> "Final answer"
      [] pat = 2 -> "Therefore,"
      [] pat = 3 -> "Thus,"
      [] pat = 4 -> "In conclusion,"
      [] pat = 5 -> "The answer is"

\* The optional colon of 'Final [Aa]nswer:?' and 'The answer is:?'.
Colon(t, i, pat) == IF pat \in {1, 5} /\ At(t, i + 1) = ":" THEN 1 ELSE 0

\* \s* after 'Final answer:?', \s+ after the other markers.
MinSpaces(pat) == IF pat = 1 THEN 0 ELSE 1

\* marker, white space, group at i.  'Final answer:?\s*' gives its colon back
\* to the group when the group cannot start after it.
MarkerAt(t, pat, i) ==
    IF t[i] # Marker(pat) THEN NoMatch
    ELSE Group(t, OrElse(CaptureStart(t, i + Colon(t, i, pat), MinSpaces(pat)),
                         IF pat = 1 /\ Colon(t, i, pat) = 1 THEN i + 1 ELSE 0))

\* The end of \d+(?:\.\d+)? matched from the digit at d.
NumberEnd(t, d) ==
    LET e == SpanIn(t, d, Digits)
    IN  IF At(t, e + 1) = "." /\ IsDigit(At(t, e + 2))
        THEN SpanIn(t, e + 2, Digits) ELSE e

\* (?:\s*square units?)? after the number that ends at f.
AreaUnits(t, f) ==
    IF At(t, SpanIn(t, f + 1, Spaces) + 1) = "square units"
    THEN SpanIn(t, f + 1, Spaces) + 1 ELSE f

AreaNumber(t, d) ==
    IF IsDigit(At(t, d)) THEN [from |-> d, to |-> AreaUnits(t, NumberEnd(t, d))]
    ELSE NoMatch

AreaEquals(t, p) ==
    IF At(t, p) = "=" THEN AreaNumber(t, SpanIn(t, p + 1, Spaces) + 1) ELSE NoMatch

\* Area\s*=\s*(\d+(?:\.\d+)?(?:\s*square units?)?) at i.
AreaAt(t, i) ==
    IF t[i] = "Area" THEN AreaEquals(t, SpanIn(t, i + 1, Spaces) + 1) ELSE NoMatch

\* \d+\.\s*(group) at i.
NumberedAt(t, i) ==
    IF IsDigit(t[i]) /\ At(t, SpanIn(t, i, Digits) + 1) = "."
    THEN Group(t, CaptureStart(t, SpanIn(t, i, Digits) + 1, 0))
    ELSE NoMatch

NumPatterns == 7

\* A match of pattern number pat (in the order of the patterns list) at i.
MatchAt(t, pat, i) ==
    IF pat <= 5 THEN MarkerAt(t, pat, i)
    ELSE IF pat = 6 THEN AreaAt(t, i)
    ELSE NumberedAt(t, i)

\* matches[-1] of list(re.finditer(pattern, text)): the scan resumes after the
\* end of each match.
RECURSIVE LastMatchFrom(_, _, _, _)
Resume(t, pat, i, last, m) ==
    IF m # NoMatch THEN LastMatchFrom(t, pat, m.to + 1, m)
    ELSE LastMatchFrom(t, pat, i + 1, last)

LastMatchFrom(t, pat, i, last) ==
    IF i > Len(t) THEN last ELSE Resume(t, pat, i, last, MatchAt(t, pat, i))

LastMatch(t, pat) == LastMatchFrom(t, pat, 1, NoMatch)

\* str.strip()
Strip(s) ==
    LET keep == {i \in 1..Len(s) : ~IsSpace(s[i])}
    IN  IF keep = {} THEN <<>> ELSE SubSeq(s, Min(keep), Max(keep))

\* re.sub(r'\s+', ' ', s)
RECURSIVE Collapse(_)
Collapse(s) ==
    IF s = <<>> THEN <<>>
    ELSE IF IsSpace(Head(s))
         THEN <<" ">> \o Collapse(SubSeq(s, SpanIn(s, 1, Spaces) + 1, Len(s)))
         ELSE <<Head(s)>> \o Collapse(Tail(s))

\* str.rstrip('.')
RStripDots(s) ==
    LET keep == {i \in 1..Len(s) : s[i] # "."}
    IN  IF keep = {} THEN <<>> ELSE SubSeq(s, 1, Max(keep))

\* matches[-1].group(1).strip(), white space normalised, trailing periods
\* removed.
CleanAnswer(t, m) == RStripDots(Collapse(Strip(SubSeq(t, m.from, m.to))))

\* The value None of an Optional[str].
Absent == <<"<None>">>

\* Python truthiness of an Optional[str]: neither None nor "".
Truthy(a) == a # Absent /\ a # <<>>

\* for pattern in patterns: the first pattern from p on with any match, 0
\* when there is none.
RECURSIVE FirstPatternFrom(_, _)
FirstPatternFrom(t, p) ==
    IF p > NumPatterns THEN 0
    ELSE IF LastMatch(t, p) # NoMatch THEN p
    ELSE FirstPatternFrom(t, p + 1)

FirstPattern(t) == FirstPatternFrom(t, 1)

AnswerOfPattern(t, p) == IF p = 0 THEN Absent ELSE CleanAnswer(t, LastMatch(t, p))

\* ConsistencyAgent._extract_final_answer
ConsistencyExtract(t) == AnswerOfPattern(t, FirstPattern(t))

\* re.search(r'^\d+(?:\.\d+)?$', answer)
IsBareNumber(a) == IsDigit(At(a, 1)) /\ NumberEnd(a, 1) = Len(a)

\* re.search(r'square units?', text, re.IGNORECASE)
MentionsUnits(t) == \E i \in 1..Len(t) : t[i] = "square units"

\* "For numeric answers, ensure units are included if applicable"
WithUnits(t, a) ==
    IF a # Absent /\ IsBareNumber(a) /\ ~MentionsUnits(t)
    THEN a \o <<" ", "square units">>
    ELSE a

\* Summarizer._extract_final_answer: the same patterns and clean-up, then the
\* units.
SummarizerExtract(t) == WithUnits(t, AnswerOfPattern(t, FirstPattern(t)))

----------------------------------------------------------------------------
(* Numbers in answers *)

RECURSIVE Pow10(_)
Pow10(n) == IF n = 0 THEN 1 ELSE 10 * Pow10(n - 1)

RECURSIVE DigitsVal(_)
DigitsVal(s) ==
    IF s = <<>> THEN 0 ELSE 10 * DigitsVal(SubSeq(s, 1, Len(s) - 1)) + DigitVal(s[Len(s)])

\* re.search(r'(\d+(?:\.\d+)?)', answer) finds a number.
HasNumber(a) == \E i \in 1..Len(a) : IsDigit(a[i])

\* The digits a[i..e] and, when f > e, the fraction a[e+2..f], as the decimal
\* int + frac / 10^nfrac.
Decimal(a, i, e, f) ==
    [int |-> DigitsVal(SubSeq(a, i, e)),
     frac |-> IF f > e THEN DigitsVal(SubSeq(a, e + 2, f)) ELSE 0,
     nfrac |-> IF f > e THEN f - e - 1 ELSE 0]

NumberAt(a, i) == Decimal(a, i, SpanIn(a, i, Digits), NumberEnd(a, i))

\* float(re.search(r'(\d+(?:\.\d+)?)', answer).group(1))
FirstNumber(a) == NumberAt(a, Min({k \in 1..Len(a) : IsDigit(a[k])}))

Scaled(v, k) == v.int * Pow10(k) + v.frac * Pow10(k - v.nfrac)

Abs(x) == IF x < 0 THEN -x ELSE x

\* The comparison, had the tolerance been written 0.001.
WithinThousandth(v, first) ==
    Abs(Scaled(v, Max({v.nfrac, first.nfrac, 3}))
          - Scaled(first, Max({v.nfrac, first.nfrac, 3})))
       <= Pow10(Max({v.nfrac, first.nfrac, 3}) - 3)

\* abs(value - first_value) <= 0.01, in decimal arithmetic.
WithinTolerance(v, first) ==
    LET k == Max({v.nfrac, first.nfrac, 2})
    IN  Abs(Scaled(v, k) - Scaled(first, k)) <= Pow10(k - 2)

----------------------------------------------------------------------------
(* Responses *)

\* {"model": ..., "raw_response": ...}
Response(m, t) == [model |-> m, raw_response |-> t]

\* The value None of an Optional[Dict].
NoResponse == [model |-> "<None>", raw_response |-> <<>>]

\* The selection, had it kept the last of the longest.
LastOfLongest(rs) ==
    rs[Max({i \in 1..Len(rs) :
              \A j \in 1..Len(rs) :
                 TextLen(rs[i].raw_response) >= TextLen(rs[j].raw_response)})]

\* max(rs, key=lambda r: len(r["raw_response"])): the first of the longest.
MostDetailed(rs) ==
    rs[Min({i \in 1..Len(rs) :
              \A j \in 1..Len(rs) :
                 TextLen(rs[i].raw_response) >= TextLen(rs[j].raw_response)})]

\* The first and the second component of every pair.
Firsts(pairs) == [i \in 1..Len(pairs) |-> pairs[i][1]]

----------------------------------------------------------------------------
(* ConsistencyAgent.analyze_model_responses *)

\* final_answers, had the test "if answer:" been missing.
ResponseAnswersUnfiltered(responses) ==
    [i \in 1..Len(responses) |->
        <<responses[i], ConsistencyExtract(responses[i].raw_response)>>]

\* final_answers: the (response, answer) pairs with an answer.
ResponseAnswers(responses) ==
    SelectSeq([i \in 1..Len(responses) |->
                  <<responses[i], ConsistencyExtract(responses[i].raw_response)>>],
              LAMBDA p : Truthy(p[2]))

\* exact_matches
ExactMatches(final_answers) ==
    Firsts(SelectSeq(final_answers, LAMBDA p : p[2] = final_answers[1][2]))

\* numerical_values: the (x, value) pairs of the answers with a number.
NumericalValues(final_answers) ==
    LET numeric == SelectSeq(final_answers, LAMBDA p : HasNumber(p[2]))
    IN  [i \in 1..Len(numeric) |-> <<numeric[i][1], FirstNumber(numeric[i][2])>>]

\* matching_responses
MatchingResponses(numerical_values) ==
    Firsts(SelectSeq(numerical_values,
                     LAMBDA p : WithinTolerance(p[2], numerical_values[1][2])))

\* The numeric phase.
NumericalConsistency(responses, final_answers, numerical_values) ==
    IF /\ Len(numerical_values) = Len(final_answers)
       /\ Len(MatchingResponses(numerical_values)) = Len(responses)
    THEN MostDetailed(MatchingResponses(numerical_values))
    ELSE NoResponse

\* The exact-match phase, had it counted the exact matches against the outputs
\* with an answer instead of against all outputs.
ConsistentAmongSurvivors(responses, final_answers) ==
    IF final_answers = <<>> THEN NoResponse
    ELSE IF Len(ExactMatches(final_answers)) = Len(final_answers)
    THEN MostDetailed(ExactMatches(final_answers))
    ELSE NumericalConsistency(responses, final_answers, NumericalValues(final_answers))

\* The analysis, had it returned the first response when no response has an
\* answer.
ConsistentOrFirst(responses, final_answers) ==
    IF final_answers = <<>> THEN responses[1]
    ELSE IF Len(ExactMatches(final_answers)) = Len(responses)
    THEN MostDetailed(ExactMatches(final_answers))
    ELSE NumericalConsistency(responses, final_answers, NumericalValues(final_answers))

\* From "if not final_answers" on.
ConsistentResponse(responses, final_answers) ==
    IF final_answers = <<>> THEN NoResponse
    ELSE IF Len(ExactMatches(final_answers)) = Len(responses)
    THEN MostDetailed(ExactMatches(final_answers))
    ELSE NumericalConsistency(responses, final_answers, NumericalValues(final_answers))

\* The analysis, without the guard on fewer than two responses.
AnalyzeWithoutMinimum(responses) ==
    ConsistentResponse(responses, ResponseAnswers(responses))

AnalyzeModelResponses(responses) ==
    IF Len(responses) < 2 THEN NoResponse
    ELSE ConsistentResponse(responses, ResponseAnswers(responses))

----------------------------------------------------------------------------
(* Summarizer *)

NoClearAnswer == <<"No clear answer found">>

\* answer if answer else "No clear answer found"
OrPlaceholder(a) == IF Truthy(a) THEN a ELSE NoClearAnswer

\* {k: v for k, v in pairs}: a later pair replaces an earlier one with its key.
DictOf(pairs) ==
    [k \in {pairs[i][1] : i \in 1..Len(pairs)} |->
        pairs[Max({i \in 1..Len(pairs) : pairs[i][1] = k})][2]]

\* The answers dictionary analyze_responses builds after a parsed reply.
ExtractedAnswers(responses) ==
    DictOf([i \in 1..Len(responses) |->
               <<responses[i].model,
                 OrPlaceholder(SummarizerExtract(responses[i].raw_response))>>])

\* The result of analyze_responses for an empty list.
NoResponsesSummary ==
    [status |-> "error",
     message |-> "No valid responses received from agents",
     all_answers |-> <<>>]

\* The single-response result, had it put the answer without the placeholder
\* for a missing one.
SingleSummaryAsExtracted(response, answer) ==
    [status |-> "single_response",
     message |-> "Only one agent provided a valid response",
     best_answer |-> answer,
     confidence |-> "medium",
     selected_from |-> response.model,
     reasoning |-> "Only one response available, using it directly",
     all_answers |-> DictOf(<< <<response.model, answer>> >>)]

\* The result of analyze_responses for a single response.
SingleSummary(response, answer) ==
    [status |-> "single_response",
     message |-> "Only one agent provided a valid response",
     best_answer |-> OrPlaceholder(answer),
     confidence |-> "medium",
     selected_from |-> response.model,
     reasoning |-> "Only one response available, using it directly",
     all_answers |-> DictOf(<< <<response.model, OrPlaceholder(answer)>> >>)]

SingleResponseSummary(response) ==
    SingleSummary(response, SummarizerExtract(response.raw_response))

\* The agreement result, had it taken the last answer for best_answer.
AgreementFromLast(message, reasoning, final_answers) ==
    [status |-> "agreement",
     message |-> message,
     best_answer |-> final_answers[Len(final_answers)][2],
     confidence |-> "high",
     selected_from |-> "consensus",
     reasoning |-> reasoning,
     all_answers |-> DictOf(final_answers)]

AgreementSummary(message, reasoning, final_answers) ==
    [status |-> "agreement",
     message |-> message,
     best_answer |-> final_answers[1][2],
     confidence |-> "high",
     selected_from |-> "consensus",
     reasoning |-> reasoning,
     all_answers |-> DictOf(final_answers)]

\* The disagreement result, had it been taken from the first response
\* instead of from the most detailed one.
DisagreementFromFirst(responses, final_answers) ==
    [status |-> "disagreement",
     message |-> "Agents provided different answers",
     best_answer |-> OrPlaceholder(SummarizerExtract(responses[1].raw_response)),
     confidence |-> "medium",
     selected_from |-> responses[1].model,
     reasoning |-> "Selected based on most detailed explanation and solution steps",
     all_answers |-> DictOf(final_answers)]

DisagreementSummary(responses, final_answers) ==
    [status |-> "disagreement",
     message |-> "Agents provided different answers",
     best_answer |-> OrPlaceholder(SummarizerExtract(MostDetailed(responses).raw_response)),
     confidence |-> "medium",
     selected_from |-> MostDetailed(responses).model,
     reasoning |-> "Selected based on most detailed explanation and solution steps",
     all_answers |-> DictOf(final_answers)]

\* all(answer == first_answer for _, answer in final_answers[1:])
TextAgreement(final_answers) ==
    \A i \in 2..Len(final_answers) : final_answers[i][2] = final_answers[1][2]

\* all(abs(value - first_value) <= 0.01 for _, value in numerical_values[1:])
AllWithinTolerance(numerical_values) ==
    \A i \in 2..Len(numerical_values) :
       WithinTolerance(numerical_values[i][2], numerical_values[1][2])

\* The heuristic, had it no numerical comparison after the text comparison.
WithoutNumericalPhase(final_answers) == FALSE

\* Every extracted answer has a number, and all are within the tolerance of
\* the first.
NumericalAgreement(final_answers) ==
    /\ Len(NumericalValues(final_answers)) = Len(final_answers)
    /\ AllWithinTolerance(NumericalValues(final_answers))

\* final_answers: the (model, answer) pairs with an answer.
ModelAnswers(responses) ==
    SelectSeq([i \in 1..Len(responses) |->
                  <<responses[i].model, SummarizerExtract(responses[i].raw_response)>>],
              LAMBDA p : Truthy(p[2]))

\* From "if not final_answers" on.
AnalysisOf(responses, final_answers) ==
    IF final_answers = <<>>
    THEN [status |-> "error",
          message |-> "Could not extract clear answers from responses",
          all_answers |-> DictOf([i \in 1..Len(responses) |->
                                     <<responses[i].model, NoClearAnswer>>])]
    ELSE IF TextAgreement(final_answers)
    THEN AgreementSummary("All agents agree on the answer",
                          "All agents provided the same answer", final_answers)
    ELSE IF NumericalAgreement(final_answers)
    THEN AgreementSummary("All agents agree on the numerical value",
                          "All agents provided equivalent numerical answers",
                          final_answers)
    ELSE DisagreementSummary(responses, final_answers)

\* Summarizer._basic_analysis
BasicAnalysis(responses) == AnalysisOf(responses, ModelAnswers(responses))

\* What client.generate_response("o1", prompt) gives analyze_responses: None,
\* a text that is no JSON document, or a JSON document (its value).
NoReply == [kind |-> "none"]

NotJson == [kind |-> "text"]

JsonReply(v) == [kind |-> "json", value |-> v]

\* A JSON object with the given members, and a JSON array.
JsonObject(members) == [type |-> "object", members |-> members]

JsonArray == [type |-> "array"]

\* `not analysis`
ReplyMissing(analysis) == analysis.kind = "none"

\* json.loads(analysis) raises json.JSONDecodeError
JsonDecodeError(analysis) == analysis.kind # "json"

\* analysis_dict["all_answers"] = answers raises TypeError unless the
\* document is an object.
ItemAssignmentFails(analysis) == analysis.value.type # "object"

\* analysis_dict, had the judge's own all_answers been kept when it has one.
WithJudgesAnswers(analysis, responses) ==
    analysis.value.members @@ ("all_answers" :> ExtractedAnswers(responses))

\* analysis_dict after analysis_dict["all_answers"] = answers
WithAllAnswers(analysis, responses) ==
    ("all_answers" :> ExtractedAnswers(responses)) @@ analysis.value.members

----------------------------------------------------------------------------
(* MathAgent.solve and the eval() of its result *)

\* agent.solve returned None.
NoSolution == <<"<None>">>

\* eval() of '{"model": "...", "solution": """<text>"""}' raises SyntaxError
\* when the text holds a triple quote that ends the literal before words
\* that are no Python expression, as the texts here with a triple quote do.
EvalFails(t) == \E i \in 1..Len(t) : t[i] = "QQQ"

\* eval(...)["solution"]: the text with its backslash escapes interpreted.
EvalSolution(t) == [i \in 1..Len(t) |-> IF t[i] = "\\t" THEN "\t" ELSE t[i]]

----------------------------------------------------------------------------
(* Texts the backends and the judge answer with *)

SixUnits == <<"Final answer", ":", " ", "6", " ", "square units">>

SixUnitsNewline == <<"Final answer", ":", "\n", "6", " ", "square units">>

SixUnitsLong == <<"x", " ", "Final answer", ":", " ", "6", " ", "square units", ".">>

Six == <<"Final answer", ":", " ", "6">>

SixPointZero == <<"Final answer", ":", " ", "6", ".", "0">>

SixPointZeroOne == <<"Final answer", ":", " ", "6", ".", "0", "1">>

SixPointZeroTwo == <<"Final answer", ":", " ", "6", ".", "0", "2">>

TwelveUnits == <<"Final answer", ":", " ", "1", "2", " ", "square units">>

NoMarker == <<"x", " ", "y">>

EmptyAnswer == <<"Final answer", ":", " ", ".">>

ThereforeX == <<"Therefore,", " ", "x">>

ThusY == <<"Thus,", " ", "y", " ", "y">>

Unclear == <<"x", " ", "square units", " ", "y", " ", "square units", " ", "x">>

Escaped == <<"Final answer", ":", "\\t", "6">>

TripleQuoted == <<"Final answer", ":", " ", "6", " ", "QQQ">>

\* What one agent.solve call can give solve_problem.
SolveOutcomes == {NoSolution, TripleQuoted, Escaped, SixUnits, TwelveUnits, NoMarker}

\* Raw outputs of one backend given to the consistency agent on its own.
ConsistencyTexts ==
    {SixUnits, SixUnitsNewline, SixUnitsLong, Six, SixPointZero, SixPointZeroOne,
     SixPointZeroTwo, TwelveUnits, NoMarker, EmptyAnswer, ThereforeX}

\* Consolidated texts given to the summarizer on its own.
SummarizerTexts == {SixUnits, Six, SixPointZeroOne, TwelveUnits, ThereforeX, Unclear}

Agents == <<"o1", "gemini", "deepseek">>

RunsPerModel == 3

Problems == {"area of a 3-4-5 triangle", "solve x^2 + 5x + 6 = 0"}

\* Bounds of the stand-alone runs of the consistency agent and the summarizer.
MaxOutputs == 3

MaxInputs == 3

\* Sequences over S of length at most n.
SeqsUpTo(S, n) == UNION {[1..k -> S] : k \in 0..n}

\* The members a judge's JSON object can have for these responses.
JudgeObjects(responses) ==
    LET verdict(st) ==
            [status |-> st,
             message |-> "judge",
             best_answer |-> OrPlaceholder(SummarizerExtract(responses[1].raw_response)),
             confidence |-> "high",
             selected_from |-> responses[1].model,
             reasoning |-> "judge"]
    IN  {verdict("agreement"), verdict("disagreement"),
         [status |-> "unsure"],
         [status |-> "agreement", all_answers |-> [k \in {"judge"} |-> NoClearAnswer]],
         <<>>}

JudgeReplies(responses) ==
    {NoReply, NotJson, JsonReply(JsonArray)}
        \cup {JsonReply(JsonObject(o)) : o \in JudgeObjects(responses)}

----------------------------------------------------------------------------
(* State *)

VARIABLES
    agents,           \* Orchestrator.agents: the models, in dictionary order
    runs_per_model,   \* Orchestrator.runs_per_model
    problem,          \* the argument of solve_problem
    pc,               \* where solve_problem is
    agent_idx,        \* the position of the outer loop in agents
    run,              \* the iterations of the inner loop done for this agent
    responses,        \* the argument of analyze_model_responses
    best_response,    \* what analyze_model_responses returned last
    model_responses,  \* the values of the dictionary, in insertion order
    valid_responses,  \* list(model_responses.values())
    outcome,          \* "running", "returned" or "raised"
    result,           \* the dictionary solve_problem returned
    sum_pc,           \* where Summarizer.analyze_responses is
    sum_responses,    \* the argument of analyze_responses
    analysis,         \* the judge's reply to analyze_responses
    sum_result,       \* what analyze_responses returned
    calls,            \* agent.solve calls made, for each model
    successes,        \* responses appended, over all models
    consolidated,     \* the models whose analysis returned a response
    batches,          \* what kind of batch each model's runs gave
    invocation,       \* the number of this call of solve_problem on the orchestrator
    observed,         \* the outputs the first call observed
    scripts,          \* the outputs given to each later call to observe
    first_answers,    \* how the first call ended, and its all_answers
    judge_calls,      \* generate_response calls made by the summarizer
    client_pc,        \* where OpenRouterClient.generate_response is
    model,            \* its argument model
    max_retries,      \* its argument max_retries
    attempt,          \* the variable of its for loop
    request_id,       \* payload["request_id"]
    content,          \* the content taken from the last response body
    returned,         \* what generate_response returned
    uuids,            \* the uuid4 values drawn so far
    posted,           \* the request_id of each request posted
    failures          \* the kind of failure of each attempt that failed

vars == <<agents, runs_per_model, problem, pc, agent_idx, run, responses,
          best_response, model_responses, valid_responses, outcome, result,
          sum_pc, sum_responses, analysis, sum_result, calls, successes,
          consolidated, batches, judge_calls, invocation, observed, scripts,
          first_answers, client_pc, model, max_retries, attempt, request_id,
          content, returned, uuids, posted, failures>>

client_vars == <<client_pc, model, max_retries, attempt, request_id, content,
                 returned, uuids, posted, failures>>

orchestrator_fields == <<agents, runs_per_model>>

summarizer_vars == <<sum_pc, sum_responses, analysis, sum_result, judge_calls>>

loop_vars == <<agent_idx, run, responses, best_response, model_responses, calls,
               successes, consolidated, batches>>

repeat_vars == <<invocation, observed, scripts, first_answers>>

NoResult == [problem |-> "<None>"]

NoSummary == [status |-> "<None>"]

NoAnalysis == [kind |-> "<None>"]

current_model == agents[agent_idx]

\* The outputs one call of solve_problem observes: what each agent.solve call
\* gave, in call order, and the judge's reply if the judge was called.
NoOutputs == [solutions |-> <<>>, reply |-> NoAnalysis]

NotEnded == [outcome |-> "<None>"]

\* None as a content and as the value generate_response returns.
NoContent == <<"<None>">>

\* The keys of settings.MODELS.
MODELS == {"o1", "gemini", "deepseek"}

\* generate_response before any call of it.
ClientIdle ==
    /\ client_pc = "idle"
    /\ model = "o1"
    /\ max_retries = 0
    /\ attempt = 0
    /\ request_id = 0
    /\ content = NoContent
    /\ returned = NoContent
    /\ uuids = 0
    /\ posted = <<>>
    /\ failures = <<>>

\* Orchestrator.__init__, and the entry of solve_problem.
InitCommon ==
    /\ agents = Agents
    /\ runs_per_model = RunsPerModel
    /\ agent_idx = 1
    /\ run = 0
    /\ best_response = NoResponse
    /\ model_responses = <<>>
    /\ valid_responses = <<>>
    /\ outcome = "running"
    /\ result = NoResult
    /\ analysis = NoAnalysis
    /\ sum_result = NoSummary
    /\ consolidated = {}
    /\ batches = [m \in {Agents[i] : i \in 1..Len(Agents)} |-> "pending"]
    /\ calls = [m \in {Agents[i] : i \in 1..Len(Agents)} |-> 0]
    /\ successes = 0
    /\ judge_calls = 0
    /\ invocation = 1
    /\ observed = NoOutputs
    /\ scripts = <<>>
    /\ first_answers = NotEnded

Init ==
    /\ InitCommon
    /\ ClientIdle
    /\ problem \in Problems
    /\ pc = "run"
    /\ responses = <<>>
    /\ sum_pc = "idle"
    /\ sum_responses = <<>>

----------------------------------------------------------------------------
(* Orchestrator.solve_problem *)

\* One iteration of the inner loop: await agent.solve(problem), eval() of
\* what it returned, and the append; an exception drops the run.
\* The inner loop, had it been left as soon as the model had two responses.
AgentRunUntilTwoResponses(solution) ==
    /\ pc = "run"
    /\ IF solution # NoSolution /\ ~EvalFails(solution)
       THEN /\ responses' = Append(responses, Response(current_model, EvalSolution(solution)))
            /\ successes' = successes + 1
            /\ pc' = IF run + 1 = runs_per_model \/ Len(responses) = 1
                     THEN "consolidate" ELSE "run"
       ELSE /\ pc' = IF run + 1 = runs_per_model THEN "consolidate" ELSE "run"
            /\ UNCHANGED <<responses, successes>>
    /\ calls' = [calls EXCEPT ![current_model] = @ + 1]
    /\ run' = run + 1
    /\ UNCHANGED <<orchestrator_fields, client_vars, problem, agent_idx, best_response,
                   model_responses, consolidated, batches, valid_responses, outcome,
                   result, summarizer_vars>>

\* The inner loop, had a run without a response ended the runs of its model.
AgentRunUntilFailure(solution) ==
    /\ pc = "run"
    /\ IF solution # NoSolution /\ ~EvalFails(solution)
       THEN /\ responses' = Append(responses, Response(current_model, EvalSolution(solution)))
            /\ successes' = successes + 1
            /\ pc' = IF run + 1 = runs_per_model THEN "consolidate" ELSE "run"
       ELSE /\ pc' = "consolidate"
            /\ UNCHANGED <<responses, successes>>
    /\ calls' = [calls EXCEPT ![current_model] = @ + 1]
    /\ run' = run + 1
    /\ UNCHANGED <<orchestrator_fields, client_vars, problem, agent_idx, best_response,
                   model_responses, consolidated, batches, valid_responses, outcome,
                   result, summarizer_vars>>

AgentRunOf(solution) ==
    /\ pc = "run"
    /\ IF solution # NoSolution /\ ~EvalFails(solution)
       THEN /\ responses' = Append(responses, Response(current_model, EvalSolution(solution)))
            /\ successes' = successes + 1
       ELSE UNCHANGED <<responses, successes>>
    /\ calls' = [calls EXCEPT ![current_model] = @ + 1]
    /\ run' = run + 1
    /\ pc' = IF run + 1 = runs_per_model THEN "consolidate" ELSE "run"
    /\ UNCHANGED <<orchestrator_fields, client_vars, problem, agent_idx, best_response,
                   model_responses, consolidated, batches, valid_responses, outcome,
                   result, summarizer_vars>>

AgentRun ==
    /\ \E solution \in SolveOutcomes : AgentRunOf(solution)
    /\ UNCHANGED repeat_vars

\* The kind of the batch of responses the inner loop left: "silent" when no
\* run gave a response, "unanimous" when every one of the n runs gave a
\* response and the answers the summarizer extracts from them are one and
\* the same, "mixed" otherwise.
BatchKind(rs, n) ==
    IF rs = <<>> THEN "silent"
    ELSE IF /\ Len(rs) = n
            /\ \A i \in 1..Len(rs) :
                  /\ Truthy(SummarizerExtract(rs[i].raw_response))
                  /\ SummarizerExtract(rs[i].raw_response)
                        = SummarizerExtract(rs[1].raw_response)
    THEN "unanimous"
    ELSE "mixed"

\* After the inner loop: the consistency analysis of this model's responses,
\* and the step of the outer loop.  The list of responses is not read again
\* once the loop is left.
Consolidate ==
    /\ pc = "consolidate"
    /\ IF responses # <<>>
       THEN /\ best_response' = AnalyzeModelResponses(responses)
            /\ model_responses' = IF best_response' # NoResponse
                                  THEN Append(model_responses, best_response')
                                  ELSE model_responses
            /\ consolidated' = IF best_response' # NoResponse
                               THEN consolidated \cup {current_model}
                               ELSE consolidated
       ELSE UNCHANGED <<best_response, model_responses, consolidated>>
    /\ batches' = [batches EXCEPT ![current_model] = BatchKind(responses, runs_per_model)]
    /\ IF agent_idx < Len(agents)
       THEN /\ agent_idx' = agent_idx + 1
            /\ run' = 0
            /\ responses' = <<>>
            /\ pc' = "run"
       ELSE /\ pc' = "check"
            /\ responses' = <<>>
            /\ UNCHANGED <<agent_idx, run>>
    /\ UNCHANGED <<orchestrator_fields, client_vars, repeat_vars, problem, valid_responses, outcome, result,
                   summarizer_vars, calls, successes>>

\* The raise, had it been taken as soon as any model was dropped.
RaiseAfterAnyDrop ==
    /\ pc = "check"
    /\ Len(model_responses) < Len(agents)
    /\ outcome' = "raised"
    /\ pc' = "done"
    /\ UNCHANGED <<orchestrator_fields, client_vars, repeat_vars, problem, loop_vars, valid_responses, result,
                   summarizer_vars>>

\* if not model_responses: raise ValueError(...)
RaiseNoConsistent ==
    /\ pc = "check"
    /\ model_responses = <<>>
    /\ outcome' = "raised"
    /\ pc' = "done"
    /\ UNCHANGED <<orchestrator_fields, client_vars, repeat_vars, problem, loop_vars, valid_responses, result,
                   summarizer_vars>>

\* valid_responses = list(model_responses.values()) and the call of
\* summarizer.analyze_responses.
CallSummarizer ==
    /\ pc = "check"
    /\ model_responses # <<>>
    /\ valid_responses' = model_responses
    /\ sum_responses' = model_responses
    /\ sum_pc' = "called"
    /\ pc' = "summarizing"
    /\ UNCHANGED <<orchestrator_fields, client_vars, repeat_vars, problem, loop_vars, outcome, result,
                   analysis, sum_result, judge_calls>>

\* The return of the try block.
ReturnResult ==
    /\ pc = "summarizing"
    /\ sum_pc = "returned"
    /\ result' = [problem |-> problem,
                  agent_responses |-> valid_responses,
                  summary |-> sum_result]
    /\ outcome' = "returned"
    /\ pc' = "done"
    /\ UNCHANGED <<orchestrator_fields, client_vars, repeat_vars, problem, loop_vars, valid_responses,
                   summarizer_vars>>

\* str(e) of the TypeError the item assignment raises on a JSON array.
ErrorMessage == "list indices must be integers or slices, not str"

\* The except block, had it listed every configured model in all_answers.
ReturnPartialAllAgents ==
    /\ pc = "summarizing"
    /\ sum_pc = "raised"
    /\ result' = [problem |-> problem,
                  agent_responses |-> valid_responses,
                  summary |->
                    [status |-> "error",
                     message |-> "Error analyzing responses: " \o ErrorMessage,
                     all_answers |->
                       DictOf([i \in 1..Len(agents) |->
                                 <<agents[i],
                                   <<"Response received but analysis failed">> >>])]]
    /\ outcome' = "returned"
    /\ pc' = "done"
    /\ UNCHANGED <<orchestrator_fields, client_vars, repeat_vars, problem, loop_vars, valid_responses,
                   summarizer_vars>>

\* The except block, had it raised the summarizer's exception again.
ReraiseFailure ==
    /\ pc = "summarizing"
    /\ sum_pc = "raised"
    /\ outcome' = "raised"
    /\ pc' = "done"
    /\ UNCHANGED <<orchestrator_fields, client_vars, repeat_vars, problem, loop_vars, valid_responses, result,
                   summarizer_vars>>

\* The except block: the partial result.
ReturnPartial ==
    /\ pc = "summarizing"
    /\ sum_pc = "raised"
    /\ result' = [problem |-> problem,
                  agent_responses |-> valid_responses,
                  summary |->
                    [status |-> "error",
                     message |-> "Error analyzing responses: " \o ErrorMessage,
                     all_answers |->
                       DictOf([i \in 1..Len(valid_responses) |->
                                 <<valid_responses[i].model,
                                   <<"Response received but analysis failed">> >>])]]
    /\ outcome' = "returned"
    /\ pc' = "done"
    /\ UNCHANGED <<orchestrator_fields, client_vars, repeat_vars, problem, loop_vars, valid_responses,
                   summarizer_vars>>

----------------------------------------------------------------------------
(* Summarizer.analyze_responses *)

\* analyze_responses, had it asked the judge about a single response too.
AnalyzeResponsesAskingForOne ==
    /\ sum_pc = "called"
    /\ IF Len(sum_responses) = 0
       THEN /\ sum_result' = NoResponsesSummary
            /\ sum_pc' = "returned"
            /\ UNCHANGED judge_calls
       ELSE /\ sum_pc' = "awaiting"
            /\ judge_calls' = judge_calls + 1
            /\ UNCHANGED sum_result
    /\ UNCHANGED <<orchestrator_fields, client_vars, repeat_vars, problem, pc, loop_vars, valid_responses,
                   outcome, result, sum_responses, analysis>>

\* Up to the await of the judge's reply: the empty and the single-response
\* results, or the call of client.generate_response.
AnalyzeResponses ==
    /\ sum_pc = "called"
    /\ IF Len(sum_responses) = 0
       THEN /\ sum_result' = NoResponsesSummary
            /\ sum_pc' = "returned"
            /\ UNCHANGED judge_calls
       ELSE IF Len(sum_responses) = 1
       THEN /\ sum_result' = SingleResponseSummary(sum_responses[1])
            /\ sum_pc' = "returned"
            /\ UNCHANGED judge_calls
       ELSE /\ sum_pc' = "awaiting"
            /\ judge_calls' = judge_calls + 1
            /\ UNCHANGED sum_result
    /\ UNCHANGED <<orchestrator_fields, client_vars, repeat_vars, problem, pc, loop_vars, valid_responses,
                   outcome, result, sum_responses, analysis>>

\* The result, had a missing reply been answered with the error result
\* instead of the heuristic's.
ResultWithoutFallback(reply, rs) ==
    IF ReplyMissing(reply) THEN NoResponsesSummary
    ELSE IF JsonDecodeError(reply) THEN BasicAnalysis(rs)
    ELSE IF ItemAssignmentFails(reply) THEN NoSummary
    ELSE WithAllAnswers(reply, rs)

\* What analyze_responses returns for the reply (nothing when it raises).
ResultOfReply(reply, rs) ==
    IF ReplyMissing(reply) \/ JsonDecodeError(reply) THEN BasicAnalysis(rs)
    ELSE IF ItemAssignmentFails(reply) THEN NoSummary
    ELSE WithAllAnswers(reply, rs)

\* The TypeError of the item assignment is not caught in analyze_responses.
ReplyRaises(reply) ==
    /\ ~ReplyMissing(reply)
    /\ ~JsonDecodeError(reply)
    /\ ItemAssignmentFails(reply)

\* From the judge's reply to the end of analyze_responses.
JudgeReturnsOf(reply) ==
    /\ sum_pc = "awaiting"
    /\ analysis' = reply
    /\ sum_result' = ResultOfReply(reply, sum_responses)
    /\ sum_pc' = IF ReplyRaises(reply) THEN "raised" ELSE "returned"
    /\ UNCHANGED <<orchestrator_fields, client_vars, problem, pc, loop_vars, valid_responses,
                   outcome, result, sum_responses, judge_calls>>

JudgeReturns ==
    /\ sum_pc = "awaiting"
    /\ \E reply \in JudgeReplies(sum_responses) : JudgeReturnsOf(reply)
    /\ UNCHANGED repeat_vars

----------------------------------------------------------------------------
(* Specifications *)

Next ==
    \/ AgentRun
    \/ Consolidate
    \/ RaiseNoConsistent
    \/ CallSummarizer
    \/ AnalyzeResponses
    \/ JudgeReturns
    \/ ReturnResult
    \/ ReturnPartial

Spec == Init /\ [][Next]_vars


\* The consistency agent on its own: any list of up to MaxOutputs raw outputs
\* of one model.
InitConsistency ==
    /\ InitCommon
    /\ ClientIdle
    /\ problem = "area of a 3-4-5 triangle"
    /\ pc = "consistency"
    /\ responses \in {[i \in 1..Len(ts) |-> Response(Agents[1], ts[i])] :
                         ts \in SeqsUpTo(ConsistencyTexts, MaxOutputs)}
    /\ sum_pc = "idle"
    /\ sum_responses = <<>>

AnalyzeConsistency ==
    /\ pc = "consistency"
    /\ best_response' = AnalyzeModelResponses(responses)
    /\ pc' = "consistency done"
    /\ UNCHANGED <<orchestrator_fields, client_vars, repeat_vars, problem, agent_idx, run, responses,
                   model_responses, valid_responses, outcome, result, summarizer_vars,
                   calls, successes, consolidated, batches>>

NextConsistency == AnalyzeConsistency

SpecConsistency == InitConsistency /\ [][NextConsistency]_vars

\* The position of a model in Agents.
AgentIndex(m) == CHOOSE i \in 1..Len(Agents) : Agents[i] = m

\* The summarizer on its own: any list of up to MaxInputs responses, of models
\* in the order of Agents (a model may come more than once).
InitSummarizer ==
    /\ InitCommon
    /\ ClientIdle
    /\ problem = "area of a 3-4-5 triangle"
    /\ pc = "summarizer"
    /\ responses = <<>>
    /\ sum_pc = "called"
    /\ sum_responses \in
          {rs \in SeqsUpTo({Response(Agents[i], t) : i \in 1..Len(Agents),
                                                      t \in SummarizerTexts},
                           MaxInputs) :
              \A i \in 1..(Len(rs) - 1) :
                 AgentIndex(rs[i].model) <= AgentIndex(rs[i + 1].model)}

NextSummarizer ==
    \/ AnalyzeResponses
    \/ JudgeReturns

SpecSummarizer == InitSummarizer /\ [][NextSummarizer]_vars


\* analyze_responses with a judge that gives nothing to decode: the reply is
\* missing or is no JSON document, and _basic_analysis decides.
HeuristicFallback ==
    /\ sum_pc = "awaiting"
    /\ \E reply \in {NoReply, NotJson} : JudgeReturnsOf(reply)
    /\ UNCHANGED repeat_vars

NextHeuristic ==
    \/ AnalyzeResponses
    \/ HeuristicFallback

SpecHeuristic == InitSummarizer /\ [][NextHeuristic]_vars


\* solve_problem called again and again on one Orchestrator. The first call
\* observes any outputs and they are recorded; each later call is given the
\* outputs it observes: those of the first call once more, or those of
\* another call.
MaxInvocations == 3

RepeatOutcomes == {NoSolution, SixUnits}

RepeatReplies ==
    {NoReply, JsonReply(JsonArray), JsonReply(JsonObject([status |-> "disagreement"]))}

\* Another call: every run of every agent answers, and the judge does not.
OtherOutputs ==
    [solutions |-> [i \in 1..(Len(Agents) * RunsPerModel) |-> SixUnits],
     reply |-> NoReply]

\* The number of the agent.solve call the inner loop is about to make.
CallIndex == (agent_idx - 1) * runs_per_model + run + 1

\* The outputs the current call is given to observe.
script == scripts[Len(scripts)]

\* How the current call ended: what it raised or returned, and the
\* all_answers of the returned summary.
Ended ==
    [outcome |-> outcome,
     all_answers |-> IF outcome = "returned" THEN result.summary.all_answers ELSE <<>>]

RepeatAgentRun ==
    /\ pc = "run"
    /\ \E solution \in RepeatOutcomes :
          /\ invocation > 1 => solution = script.solutions[CallIndex]
          /\ AgentRunOf(solution)
          /\ observed' = IF invocation = 1
                         THEN [observed EXCEPT !.solutions = Append(@, solution)]
                         ELSE observed
    /\ UNCHANGED <<invocation, scripts, first_answers>>

RepeatJudgeReturns ==
    /\ sum_pc = "awaiting"
    /\ \E reply \in RepeatReplies :
          /\ invocation > 1 => reply = script.reply
          /\ JudgeReturnsOf(reply)
          /\ observed' = IF invocation = 1
                         THEN [observed EXCEPT !.reply = reply]
                         ELSE observed
    /\ UNCHANGED <<invocation, scripts, first_answers>>

\* The next call of solve_problem on the same Orchestrator: its locals are
\* new, the fields of the Orchestrator are what the last call left.
NewCall(kept) ==
    /\ pc = "done"
    /\ invocation < MaxInvocations
    /\ invocation' = invocation + 1
    /\ first_answers' = IF invocation = 1 THEN Ended ELSE first_answers
    /\ \E next \in {observed, OtherOutputs} : scripts' = Append(scripts, next)
    /\ problem' \in Problems
    /\ pc' = "run"
    /\ agent_idx' = 1
    /\ run' = 0
    /\ responses' = <<>>
    /\ best_response' = NoResponse
    /\ model_responses' = kept
    /\ valid_responses' = <<>>
    /\ outcome' = "running"
    /\ result' = NoResult
    /\ sum_pc' = "idle"
    /\ sum_responses' = <<>>
    /\ analysis' = NoAnalysis
    /\ sum_result' = NoSummary
    /\ consolidated' = {}
    /\ batches' = [m \in DOMAIN batches |-> "pending"]
    /\ calls' = [m \in DOMAIN calls |-> 0]
    /\ successes' = 0
    /\ judge_calls' = 0
    /\ UNCHANGED <<orchestrator_fields, client_vars, observed>>

\* A variant in which the dictionary of consolidated responses outlives the
\* call.
SolveAgainKeepingResponses == NewCall(model_responses)

SolveAgain == NewCall(<<>>)

NextRepeat ==
    \/ RepeatAgentRun
    \/ Consolidate
    \/ RaiseNoConsistent
    \/ CallSummarizer
    \/ AnalyzeResponses
    \/ RepeatJudgeReturns
    \/ ReturnResult
    \/ ReturnPartial
    \/ SolveAgain

SpecRepeat == Init /\ [][NextRepeat]_vars

----------------------------------------------------------------------------
(* OpenRouterClient.generate_response *)

\* The default of the parameter max_retries.
DefaultMaxRetries == 3

\* The largest max_retries a call is given here.
MaxRetriesArg == 3

\* What a response body can give as content: None, the empty text, white
\* space, and texts.
Contents == {NoContent, <<>>, <<" ">>, SixUnits, <<"\n", "6">>}

\* The JSON objects a 200 response can carry.
Bodies ==
    {[error |-> [message |-> "overloaded"]],
     [choices |-> <<>>],
     [choices |-> <<[finish_reason |-> "stop"]>>],
     [choices |-> <<>>, response |-> SixUnits],
     <<>>}
        \cup {[choices |-> <<[message |-> [content |-> c]]>>] : c \in Contents}
        \cup {[response |-> c] : c \in Contents}

\* How client.post(...), raise_for_status() and response.json() can end.
PostOutcomes ==
    {[kind |-> "transport"], [kind |-> "not json"]}
        \cup {[kind |-> "status", code |-> c] : c \in {401, 404, 429, 500}}
        \cup {[kind |-> "data", data |-> d] : d \in Bodies}

\* The attempt raises inside the try: a transport error or a timeout, an
\* HTTP error status (turned into ValueError), a body that is no JSON, or a
\* body with an "error" member.
PostRaises(o) ==
    \/ o.kind \in {"transport", "not json", "status"}
    \/ o.kind = "data" /\ "error" \in DOMAIN o.data

\* data["choices"][0].get("message", {})
MessageOf(choice) == IF "message" \in DOMAIN choice THEN choice.message ELSE <<>>

\* The content the code takes from a body.
ContentOf(data) ==
    IF "choices" \in DOMAIN data /\ data.choices # <<>>
    THEN IF "content" \in DOMAIN MessageOf(data.choices[1])
         THEN MessageOf(data.choices[1]).content
         ELSE NoContent
    ELSE IF "response" \in DOMAIN data THEN data.response ELSE NoContent

\* content and len(content.strip()) > 0
NonEmpty(c) == c # NoContent /\ c # <<>> /\ Strip(c) # <<>>

\* The attempt gives generate_response a text to return.
Succeeds(o) == ~PostRaises(o) /\ NonEmpty(ContentOf(o.data))

\* The kind of failure of an attempt that gives no text.
FailureKind(o) ==
    IF o.kind = "transport" THEN "transport"
    ELSE IF o.kind = "status" /\ o.code = 401 THEN "auth"
    ELSE IF o.kind = "status" /\ o.code = 429 THEN "rate limit"
    ELSE IF PostRaises(o) THEN "upstream"
    ELSE "empty"

\* str(uuid.uuid4()): a value that was not drawn before.
Uuid4 == uuids + 1

\* The call, up to the first iteration of the loop: an unknown model raises
\* ValueError, range(max_retries) may be empty.
GenerateResponse ==
    /\ client_pc = "called"
    /\ IF model \notin MODELS
       THEN /\ client_pc' = "raised"
            /\ UNCHANGED <<request_id, uuids, returned>>
       ELSE /\ request_id' = Uuid4
            /\ uuids' = uuids + 1
            /\ IF max_retries > 0
               THEN client_pc' = "post" /\ UNCHANGED returned
               ELSE client_pc' = "done" /\ returned' = NoContent
    /\ UNCHANGED <<model, max_retries, attempt, content, posted, failures>>
    /\ UNCHANGED <<orchestrator_fields, repeat_vars, problem, pc, loop_vars,
                   valid_responses, outcome, result, summarizer_vars>>

\* The last attempt failed: return None.
GiveUp ==
    /\ attempt >= max_retries - 1
    /\ returned' = NoContent
    /\ client_pc' = "done"
    /\ UNCHANGED <<attempt, request_id, uuids>>

\* An empty response with retries left: a new request_id, and continue.
RetryAfterEmpty ==
    /\ attempt < max_retries - 1
    /\ request_id' = Uuid4
    /\ uuids' = uuids + 1
    /\ attempt' = attempt + 1
    /\ UNCHANGED <<client_pc, returned>>

\* The except block, had it retried with the request_id of the attempt that
\* failed.
RetryAfterErrorSameId ==
    /\ attempt < max_retries - 1
    /\ attempt' = attempt + 1
    /\ UNCHANGED <<client_pc, returned, request_id, uuids>>

\* The except block with retries left: a new request_id, and continue.
RetryAfterError ==
    /\ attempt < max_retries - 1
    /\ request_id' = Uuid4
    /\ uuids' = uuids + 1
    /\ attempt' = attempt + 1
    /\ UNCHANGED <<client_pc, returned>>

\* One iteration of the loop: the request is posted and its outcome handled.
\* An empty response on the last attempt raises ValueError inside the try,
\* so it ends in the except block like every other failure.
Attempt ==
    /\ client_pc = "post"
    /\ posted' = Append(posted, request_id)
    /\ \E o \in PostOutcomes :
          /\ content' = IF PostRaises(o) THEN content ELSE ContentOf(o.data)
          /\ IF Succeeds(o)
             THEN /\ returned' = ContentOf(o.data)
                  /\ client_pc' = "done"
                  /\ UNCHANGED <<attempt, request_id, uuids, failures>>
             ELSE /\ failures' = Append(failures, FailureKind(o))
                  /\ IF PostRaises(o)
                     THEN RetryAfterError \/ GiveUp
                     ELSE RetryAfterEmpty \/ GiveUp
    /\ UNCHANGED <<model, max_retries>>
    /\ UNCHANGED <<orchestrator_fields, repeat_vars, problem, pc, loop_vars,
                   valid_responses, outcome, result, summarizer_vars>>

\* generate_response on its own, for any model and any max_retries up to
\* MaxRetriesArg. Each await ends, the post by its timeout at the latest.
InitClient ==
    /\ InitCommon
    /\ problem = "area of a 3-4-5 triangle"
    /\ pc = "client"
    /\ responses = <<>>
    /\ sum_pc = "idle"
    /\ sum_responses = <<>>
    /\ client_pc = "called"
    /\ model \in MODELS \cup {"unknown"}
    /\ max_retries \in 0..MaxRetriesArg
    /\ attempt = 0
    /\ request_id = 0
    /\ content = NoContent
    /\ returned = NoContent
    /\ uuids = 0
    /\ posted = <<>>
    /\ failures = <<>>

NextClient ==
    \/ GenerateResponse
    \/ Attempt

SpecClient == InitClient /\ [][NextClient]_vars /\ WF_vars(NextClient)

----------------------------------------------------------------------------
(* Properties *)

\* The answers of the outputs that have one, by the consistency agent's
\* extractor and by the summarizer's.
SurvivingAnswers(rs) ==
    SelectSeq([i \in 1..Len(rs) |-> ConsistencyExtract(rs[i].raw_response)], Truthy)

SummarizerAnswers(rs) ==
    SelectSeq([i \in 1..Len(rs) |-> SummarizerExtract(rs[i].raw_response)], Truthy)

EveryOutputSurvives(rs) == Len(SurvivingAnswers(rs)) = Len(rs)

SameAnswers(ans) == \A i \in 1..Len(ans) : ans[i] = ans[1]

\* The first numbers of two answers differ by at most one hundredth.
Near(a, b) ==
    LET x == FirstNumber(a)
        y == FirstNumber(b)
        k == Max({x.nfrac, y.nfrac, 2})
    IN  100 * Abs(Scaled(x, k) - Scaled(y, k)) <= Pow10(k)

NumericallyClose(ans) ==
    /\ \A i \in 1..Len(ans) : HasNumber(ans[i])
    /\ \A i \in 1..Len(ans) : Near(ans[i], ans[1])

\* The agreement rule over the outputs that have an answer.
AgreementRule(rs) ==
    /\ SurvivingAnswers(rs) # <<>>
    /\ SameAnswers(SurvivingAnswers(rs)) \/ NumericallyClose(SurvivingAnswers(rs))

ModelsOf(rs) == {rs[i].model : i \in 1..Len(rs)}

AnalysisFailed == <<"Response received but analysis failed">>

C2_SummarizerFailureReturnsPartial ==
    pc = "done" /\ sum_pc = "raised" =>
       /\ outcome = "returned"
       /\ result.problem = problem
       /\ result.agent_responses = model_responses
       /\ result.summary.status = "error"
       /\ DOMAIN result.summary.all_answers = consolidated
       /\ DOMAIN result.summary.all_answers = ModelsOf(model_responses)
       /\ \A m \in DOMAIN result.summary.all_answers :
             result.summary.all_answers[m] = AnalysisFailed

\* analyze_responses raised with the responses of all three models.
C2_Witness ==
    /\ pc = "done"
    /\ sum_pc = "raised"
    /\ outcome = "returned"
    /\ Len(result.agent_responses) = 3

C4_ConsolidationStep ==
    (model_responses' # model_responses \/ consolidated' # consolidated) =>
       /\ Len(responses) >= 2
       /\ AgreementRule(responses)
       /\ ModelsOf(responses) = {current_model}
       /\ consolidated' = consolidated \cup {current_model}
       /\ \E i \in 1..Len(responses) :
             model_responses' = Append(model_responses, responses[i])

\* C4: a model has a consolidated response only if it had at least two
\* responses and they satisfy the agreement rule, and the result holds
\* consolidated responses and all_answers entries of such models only.
C4_ConsolidatedOnlyOnAgreement ==
    /\ [][C4_ConsolidationStep]_vars
    /\ [](/\ ModelsOf(model_responses) = consolidated
          /\ outcome = "returned" =>
                /\ result.agent_responses = model_responses
                /\ DOMAIN result.summary.all_answers \subseteq consolidated)

\* Two models were consolidated, the third had a single response and has
\* no entry in the result.
C4_Witness ==
    /\ outcome = "returned"
    /\ consolidated = {"o1", "gemini"}
    /\ successes = 7
    /\ DOMAIN result.summary.all_answers = {"o1", "gemini"}

\* C5 as stated: of two or more outputs, the result is absent when none has
\* an answer, and a representative is returned when the outputs that have an
\* answer all have the same one.
C5_ExactMatchOverSurvivors ==
    pc = "consistency done" /\ Len(responses) >= 2 =>
       /\ SurvivingAnswers(responses) = <<>> => best_response = NoResponse
       /\ (/\ SurvivingAnswers(responses) # <<>>
           /\ SameAnswers(SurvivingAnswers(responses)))
             => best_response # NoResponse

\* C5: of two or more outputs, the result is absent as soon as one output has
\* no answer, and a representative, one of the outputs, is returned when
\* every output has an answer and the answers are all the same.
C5_ExactMatchOverAllOutputs ==
    pc = "consistency done" /\ Len(responses) >= 2 =>
       /\ ~EveryOutputSurvives(responses) => best_response = NoResponse
       /\ (/\ EveryOutputSurvives(responses)
           /\ SameAnswers(SurvivingAnswers(responses)))
             => /\ best_response # NoResponse
                /\ \E i \in 1..Len(responses) : responses[i] = best_response

\* Three outputs, one without an answer and two with the same answer: absent.
C5_Witness ==
    /\ pc = "consistency done"
    /\ Len(responses) = 3
    /\ Len(SurvivingAnswers(responses)) = 2
    /\ SameAnswers(SurvivingAnswers(responses))
    /\ best_response = NoResponse

C7_OrderInsensitive ==
    pc = "consistency done" =>
       \A p \in Permutations(1..Len(responses)) :
          (AnalyzeModelResponses([i \in 1..Len(responses) |-> responses[p[i]]])
              = NoResponse)
             <=> (best_response = NoResponse)

\* C8: a representative is one of the outputs, no output is longer, and no
\* earlier output is as long.
C8_LongestEarliestRepresentative ==
    pc = "consistency done" /\ best_response # NoResponse =>
       \E i \in 1..Len(responses) :
          /\ responses[i] = best_response
          /\ \A j \in 1..Len(responses) :
                TextLen(responses[j].raw_response) <= TextLen(responses[i].raw_response)
          /\ \A j \in 1..(i - 1) :
                TextLen(responses[j].raw_response) < TextLen(responses[i].raw_response)

\* Two different outputs of the same length agree: the first is returned.
C8_Witness ==
    /\ pc = "consistency done"
    /\ responses = <<Response(Agents[1], SixUnitsNewline), Response(Agents[1], SixUnits)>>
    /\ best_response = Response(Agents[1], SixUnitsNewline)

\* C9: with two or more responses and a judge's reply that is missing, empty
\* or no JSON document, analyze_responses returns, and returns what
\* _basic_analysis gives for the same responses.
C9_FallbackEqualsBasicAnalysis ==
    (/\ sum_pc \in {"returned", "raised"}
     /\ Len(sum_responses) >= 2
     /\ analysis.kind \in {"none", "text"})
       => /\ sum_pc = "returned"
          /\ sum_result = BasicAnalysis(sum_responses)
          /\ judge_calls = 1

\* The reply was no JSON document, and the heuristic found a disagreement.
C9_Witness ==
    /\ sum_pc = "returned"
    /\ analysis = NotJson
    /\ Len(sum_responses) = 3
    /\ sum_result.status = "disagreement"

HeuristicDecided ==
    /\ sum_pc = "returned"
    /\ Len(sum_responses) >= 2
    /\ analysis.kind \in {"none", "text"}

\* Position i holds a longest raw text, and no earlier position does.
FirstLongest(rs, i) ==
    /\ \A j \in 1..Len(rs) : TextLen(rs[j].raw_response) <= TextLen(rs[i].raw_response)
    /\ \A j \in 1..(i - 1) : TextLen(rs[j].raw_response) < TextLen(rs[i].raw_response)

NoAgreement(ans) == ~SameAnswers(ans) /\ ~NumericallyClose(ans)

\* C11 as stated: the heuristic on two or more responses gives the status
\* "agreement" or "disagreement" only, and without agreement it gives
\* "disagreement", confidence "medium", the model of the longest raw text as
\* selected_from and that text's extracted answer as best_answer.
C11_DisagreementOrAgreementOnly ==
    HeuristicDecided =>
       /\ sum_result.status \in {"agreement", "disagreement"}
       /\ NoAgreement(SummarizerAnswers(sum_responses)) =>
             /\ sum_result.status = "disagreement"
             /\ sum_result.confidence = "medium"
             /\ \E i \in 1..Len(sum_responses) :
                   /\ FirstLongest(sum_responses, i)
                   /\ sum_result.selected_from = sum_responses[i].model
                   /\ sum_result.best_answer =
                         SummarizerExtract(sum_responses[i].raw_response)

\* C11: the heuristic on two or more responses gives the status "error"
\* exactly when no response has an extractable answer, and "agreement" or
\* "disagreement" otherwise; with answers and no agreement it gives
\* "disagreement", confidence "medium", the model of the first longest raw
\* text as selected_from, and as best_answer that text's extracted answer, or
\* "No clear answer found" when it has none.
C11_DisagreementUnlessNoAnswers ==
    HeuristicDecided =>
       /\ sum_result.status \in {"agreement", "disagreement", "error"}
       /\ sum_result.status = "error" <=> SummarizerAnswers(sum_responses) = <<>>
       /\ sum_result.status = "error" => "best_answer" \notin DOMAIN sum_result
       /\ (/\ SummarizerAnswers(sum_responses) # <<>>
           /\ NoAgreement(SummarizerAnswers(sum_responses))) =>
             /\ sum_result.status = "disagreement"
             /\ sum_result.confidence = "medium"
             /\ \E i \in 1..Len(sum_responses) :
                   /\ FirstLongest(sum_responses, i)
                   /\ sum_result.selected_from = sum_responses[i].model
                   /\ sum_result.best_answer =
                         IF Truthy(SummarizerExtract(sum_responses[i].raw_response))
                         THEN SummarizerExtract(sum_responses[i].raw_response)
                         ELSE <<"No clear answer found">>

\* Three responses that disagree, the longest without an extractable answer
\* and not the first.
C11_Witness ==
    /\ HeuristicDecided
    /\ Len(sum_responses) = 3
    /\ sum_result.status = "disagreement"
    /\ sum_result.best_answer = <<"No clear answer found">>
    /\ sum_result.selected_from # sum_responses[1].model

\* C12: whatever path analyze_responses returns on for a non-empty list of
\* responses, all_answers has an entry for exactly the models of the
\* responses, a placeholder for a text without an extractable answer.
C12_AllAnswersForEveryInput ==
    sum_pc = "returned" /\ Len(sum_responses) >= 1 =>
       /\ DOMAIN sum_result.all_answers = ModelsOf(sum_responses)
       /\ \A i \in 1..Len(sum_responses) :
             ~Truthy(SummarizerExtract(sum_responses[i].raw_response)) =>
                sum_result.all_answers[sum_responses[i].model] \in
                   {<<"No clear answer found">>}
                      \cup {SummarizerExtract(sum_responses[j].raw_response) :
                               j \in 1..Len(sum_responses)}

\* C13: the summary of every returned result has a best_answer exactly when
\* its status is "agreement", "single_response" or "disagreement".
C13_BestAnswerIffDecided ==
    outcome = "returned" =>
       ("best_answer" \in DOMAIN result.summary
          <=> /\ "status" \in DOMAIN result.summary
              /\ result.summary.status \in {"agreement", "single_response", "disagreement"})

\* The answer reported for a text: the extracted one, or the placeholder.
ReportedAnswer(t) ==
    IF Truthy(SummarizerExtract(t)) THEN SummarizerExtract(t)
    ELSE <<"No clear answer found">>

\* C14: analyze_responses on a single response never calls the judge and
\* returns status "single_response", confidence "medium", the response's
\* model as selected_from, its extracted answer or the placeholder as
\* best_answer, and all_answers with that model and that value only.
C14_SingleResponse ==
    Len(sum_responses) = 1 =>
       /\ sum_pc \in {"called", "returned"}
       /\ judge_calls = 0
       /\ analysis = NoAnalysis
       /\ sum_pc = "returned" =>
             /\ sum_result.status = "single_response"
             /\ sum_result.confidence = "medium"
             /\ sum_result.selected_from = sum_responses[1].model
             /\ sum_result.best_answer = ReportedAnswer(sum_responses[1].raw_response)
             /\ DOMAIN sum_result.all_answers = {sum_responses[1].model}
             /\ sum_result.all_answers[sum_responses[1].model] = sum_result.best_answer

\* A single response without an extractable answer was summarized.
C14_Witness ==
    /\ Len(sum_responses) = 1
    /\ sum_pc = "returned"
    /\ sum_result.best_answer = <<"No clear answer found">>
    /\ sum_result.selected_from = "gemini"

\* The models whose batch is of the given kind.
BatchesOf(kind) == {m \in DOMAIN batches : batches[m] = kind}

\* solve_problem has ended; two models gave, on all their runs, texts with one
\* extracted answer each, and the third gave no response at all.
TwoUnanimousOneSilent ==
    /\ pc = "done"
    /\ Cardinality(BatchesOf("unanimous")) = 2
    /\ Cardinality(BatchesOf("silent")) = 1

\* The consolidated responses all have the extracted answer of the first.
OneAnswerAcrossModels ==
    \A i \in 1..Len(model_responses) :
       SummarizerExtract(model_responses[i].raw_response)
          = SummarizerExtract(model_responses[1].raw_response)

\* all_answers with the answer of the first consolidated response for both
\* models.
BothTheAnswer ==
    [m \in BatchesOf("unanimous") |-> SummarizerExtract(model_responses[1].raw_response)]

\* C15 as stated: in that scenario with one answer a for both models,
\* solve_problem returns all_answers {A: a, B: a}, status "agreement",
\* best_answer a and confidence "high", whatever the judge replies.
C15_AgreementWhateverTheJudge ==
    TwoUnanimousOneSilent /\ OneAnswerAcrossModels =>
       /\ outcome = "returned"
       /\ result.summary.all_answers = BothTheAnswer
       /\ "status" \in DOMAIN result.summary
       /\ result.summary.status = "agreement"
       /\ "best_answer" \in DOMAIN result.summary
       /\ result.summary.best_answer = SummarizerExtract(model_responses[1].raw_response)
       /\ result.summary.confidence = "high"

\* C15: in that scenario solve_problem returns a result with the two models'
\* consolidated responses and all_answers entries for these two models only.
\* With one answer a for both: after a missing or non-JSON judge reply the
\* summary has all_answers {A: a, B: a}, status "agreement", best_answer a
\* and confidence "high"; after a reply that is a JSON object it has
\* all_answers {A: a, B: a} and otherwise the members of the reply; after a
\* JSON reply that is no object it has status "error" and the failure
\* placeholder for both.
C15_AgreementUnlessTheJudgeDecides ==
    TwoUnanimousOneSilent =>
       /\ outcome = "returned"
       /\ consolidated = BatchesOf("unanimous")
       /\ ModelsOf(result.agent_responses) = BatchesOf("unanimous")
       /\ DOMAIN result.summary.all_answers = BatchesOf("unanimous")
       /\ OneAnswerAcrossModels =>
             /\ analysis.kind \in {"none", "text"} =>
                   /\ result.summary.all_answers = BothTheAnswer
                   /\ result.summary.status = "agreement"
                   /\ result.summary.best_answer
                         = SummarizerExtract(model_responses[1].raw_response)
                   /\ result.summary.confidence = "high"
             /\ (analysis.kind = "json" /\ analysis.value.type = "object") =>
                   /\ result.summary.all_answers = BothTheAnswer
                   /\ DOMAIN result.summary
                         = DOMAIN analysis.value.members \cup {"all_answers"}
                   /\ \A k \in DOMAIN analysis.value.members \ {"all_answers"} :
                         result.summary[k] = analysis.value.members[k]
             /\ (analysis.kind = "json" /\ analysis.value.type # "object") =>
                   /\ result.summary.status = "error"
                   /\ result.summary.all_answers
                         = [m \in BatchesOf("unanimous") |-> AnalysisFailed]

\* o1 and gemini were unanimous on one answer, deepseek gave nothing, the
\* judge gave no reply, and the heuristic's agreement was returned.
C15_Witness ==
    /\ TwoUnanimousOneSilent
    /\ OneAnswerAcrossModels
    /\ batches["deepseek"] = "silent"
    /\ analysis = NoReply
    /\ outcome = "returned"
    /\ result.summary.status = "agreement"
    /\ result.summary.all_answers = BothTheAnswer

\* C16: solve_problem is a function of the outputs the current call observes.
\* A call on the same Orchestrator that observes the backend outputs and the
\* judge reply the first call observed, directly after it or after other
\* calls, consults the judge only if the first call did, ends as the first
\* call ended and, when it returns, returns the same all_answers; and no call
\* changes the Orchestrator's agents or its runs_per_model.
C16_SameOutputsSameAnswers ==
    /\ agents = Agents
    /\ runs_per_model = RunsPerModel
    /\ (invocation > 1 /\ script = observed) =>
          /\ sum_pc = "awaiting" => observed.reply # NoAnalysis
          /\ pc = "done" => Ended = first_answers

\* The third call observes what the first observed, after a second call that
\* observed something else, and returns the answers of two models.
C16_Witness ==
    /\ invocation = 3
    /\ scripts[1] = OtherOutputs
    /\ scripts[1] # observed
    /\ scripts[2] = observed
    /\ pc = "done"
    /\ outcome = "returned"
    /\ first_answers.outcome = "returned"
    /\ Cardinality(DOMAIN result.summary.all_answers) = 2

\* C17: every result solve_problem returns carries the problem it was given,
\* a non-empty list of consolidated responses with at most one per model, in
\* the order of the Orchestrator's agents, and a summary that has a status
\* and an all_answers mapping.
C17_ResultShape ==
    outcome = "returned" =>
        /\ result.problem = problem
        /\ result.agent_responses # <<>>
        /\ \A i \in 1..(Len(result.agent_responses) - 1) :
              AgentIndex(result.agent_responses[i].model)
                  < AgentIndex(result.agent_responses[i + 1].model)
        /\ {"status", "all_answers"} \subseteq DOMAIN result.summary

\* The calls of generate_response the claim is about: the model is configured.
ConfiguredCall == model \in MODELS

\* What holds of such a call at every moment.
BoundedAttempts ==
    ConfiguredCall =>
        /\ client_pc # "raised"
        /\ Len(posted) <= max_retries
        /\ \A i \in 1..(Len(posted) - 1) : posted[i] # posted[i + 1]
        /\ client_pc = "post" => Len(failures) = Len(posted)
        /\ client_pc = "done" =>
              \/ /\ returned = NoContent
                 /\ Len(failures) = Len(posted)
                 /\ Len(posted) = max_retries
              \/ /\ returned # NoContent
                 /\ NonEmpty(returned)
                 /\ returned = content
                 /\ Len(posted) = Len(failures) + 1

\* C18: for a configured model every call of generate_response ends, after
\* at most max_retries requests whatever the kind of failure of each: it
\* returns the first non-empty text a request obtains and posts nothing after
\* it, or it returns None after max_retries failed requests, and it never
\* raises; each request carries a request_id different from that of the
\* request before it.
C18_EndsWithinMaxRetries == []BoundedAttempts /\ <>(client_pc \in {"done", "raised"})

\* A call with the default max_retries that fails by authentication, then by
\* rate limit, then by an empty response, and returns None.
C18_Witness ==
    /\ ConfiguredCall
    /\ max_retries = DefaultMaxRetries
    /\ client_pc = "done"
    /\ returned = NoContent
    /\ failures = <<"auth", "rate limit", "empty">>
    /\ Len(posted) = DefaultMaxRetries

\* The reference extraction: the first of the patterns, in their order, that
\* matches anywhere in the text gives the answer, from its last match,
\* cleaned; a bare number gets the suffix when the text does not mention the
\* units; no match, no answer.
MatchingPatterns(t) == {p \in 1..NumPatterns : LastMatch(t, p) # NoMatch}

ReferenceExtract(t) ==
    IF MatchingPatterns(t) = {} THEN Absent
    ELSE LET a == CleanAnswer(t, LastMatch(t, Min(MatchingPatterns(t))))
         IN  IF IsBareNumber(a) /\ ~MentionsUnits(t)
             THEN a \o <<" ", "square units">>
             ELSE a

\* C19: the answer extracted from a text equals the reference extraction,
\* by the consistency agent's _extract_final_answer and by the summarizer's.
C19_ExtractEqualsReference ==
    \A i \in 1..Len(responses) :
        /\ ConsistencyExtract(responses[i].raw_response)
              = ReferenceExtract(responses[i].raw_response)
        /\ SummarizerExtract(responses[i].raw_response)
              = ReferenceExtract(responses[i].raw_response)

\* The agent.solve calls made so far: runs_per_model for every model the
\* outer loop has left, one per iteration for the current model, none yet
\* for the models to come; and the current model's responses are its own, at
\* most one per call.
CallsCounted ==
    /\ \A j \in 1..Len(agents) :
          calls[agents[j]] =
             IF pc \in {"run", "consolidate"}
             THEN IF j < agent_idx THEN runs_per_model
                  ELSE IF j = agent_idx THEN run
                  ELSE 0
             ELSE runs_per_model
    /\ pc = "consolidate" => run = runs_per_model
    /\ pc \in {"run", "consolidate"} =>
          /\ Len(responses) <= run
          /\ ModelsOf(responses) \subseteq {current_model}

\* The consolidation of a model is decided by the responses of that model
\* alone: they are two or more, each has an answer and the answers agree,
\* then the first longest of them is added; otherwise nothing is; the
\* consolidated responses of the other models stay as they are.
OwnOutputsDecide ==
    pc = "consolidate" =>
        IF /\ Len(responses) >= 2
           /\ EveryOutputSurvives(responses)
           /\ AgreementRule(responses)
        THEN \E i \in 1..Len(responses) :
                /\ FirstLongest(responses, i)
                /\ model_responses' = Append(model_responses, responses[i])
        ELSE model_responses' = model_responses

AfterEveryRun ==
    (batches' # batches \/ consolidated' # consolidated) =>
        /\ calls[current_model] = runs_per_model
        /\ calls' = calls
        /\ batches[current_model] = "pending"
        /\ \A m \in DOMAIN batches : m # current_model => batches'[m] = batches[m]
        /\ consolidated' \subseteq consolidated \cup {current_model}

\* C21: analyze_model_responses is called for a model only after all
\* runs_per_model agent.solve calls of that model have returned, with a
\* response or without: a model whose responses were analysed, or that was
\* consolidated, has had all its calls, and the analysis is never given the
\* responses of a part of the runs.
C21_ConsolidationAfterAllRuns ==
    /\ [][AfterEveryRun]_vars
    /\ [](\A m \in DOMAIN batches :
             (batches[m] # "pending" \/ m \in consolidated) => calls[m] = runs_per_model)

\* The first model's analysis is done: two runs gave responses, one gave
\* none, the model was consolidated, and the second model has not started.
C21_Witness ==
    /\ pc = "run"
    /\ agent_idx = 2
    /\ run = 0
    /\ calls[agents[1]] = runs_per_model
    /\ successes = 2
    /\ batches[agents[1]] = "mixed"
    /\ consolidated = {agents[1]}

\* The judge's reply is a JSON object with every member the prompt asks for
\* and a status that is "agreement" or "disagreement".
MatchesSchema(reply) ==
    /\ reply.value.type = "object"
    /\ {"status", "message", "best_answer", "confidence", "selected_from", "reasoning"}
          \subseteq DOMAIN reply.value.members
    /\ reply.value.members.status \in {"agreement", "disagreement"}

\* C22: with two or more responses, a judge's reply that is JSON but no
\* object, or an object that lacks a member or has another status, is
\* handled as a reply that could not be decoded: analyze_responses returns,
\* and returns what _basic_analysis gives for the same responses.
C22_SchemaMismatchFallsBack ==
    (/\ sum_pc \in {"returned", "raised"}
     /\ Len(sum_responses) >= 2
     /\ analysis.kind = "json"
     /\ ~MatchesSchema(analysis))
       => /\ sum_pc = "returned"
          /\ sum_result = BasicAnalysis(sum_responses)

\* C23 as stated: on two or more outputs, analyze_model_responses returns a
\* representative exactly when _basic_analysis on the same texts gives the
\* status "agreement".
C23_SameAgreementLogic ==
    HeuristicDecided =>
        ((AnalyzeModelResponses(sum_responses) # NoResponse)
            <=> (sum_result.status = "agreement"))

\* C23: on two or more outputs, analyze_model_responses returns a
\* representative exactly when _basic_analysis on the same texts gives the
\* status "agreement" and every one of the outputs has an extractable answer;
\* an output without an answer is left out by _basic_analysis and makes
\* analyze_model_responses return nothing.
C23_SameLogicWhenEveryOutputHasAnAnswer ==
    HeuristicDecided =>
        ((AnalyzeModelResponses(sum_responses) # NoResponse)
            <=> (/\ sum_result.status = "agreement"
                 /\ EveryOutputSurvives(sum_responses)))

\* Three outputs, one of them without an answer, the two others with the
\* same answer: _basic_analysis gives agreement, analyze_model_responses
\* gives nothing.
C23_Witness ==
    /\ HeuristicDecided
    /\ Len(sum_responses) = 3
    /\ Len(SurvivingAnswers(sum_responses)) = 2
    /\ sum_result.status = "agreement"
    /\ AnalyzeModelResponses(sum_responses) = NoResponse

\* C24: the two _extract_final_answer functions give the same value for every
\* text, so that for every consolidated response of a result the summarizer
\* returned, the answer the consistency agent judged it by is the answer
\* all_answers reports for its model.
C24_OneExtractor ==
    (outcome = "returned" /\ sum_pc = "returned") =>
        \A i \in 1..Len(result.agent_responses) :
            /\ ConsistencyExtract(result.agent_responses[i].raw_response)
                  = SummarizerExtract(result.agent_responses[i].raw_response)
            /\ result.summary.all_answers[result.agent_responses[i].model]
                  = ConsistencyExtract(result.agent_responses[i].raw_response)

\* C25: a representative returned by analyze_model_responses is one of the
\* responses it was given, with the same model and the same raw text, and
\* _extract_final_answer gives a non-empty answer for it; the list of
\* responses is left as it was.
C25_RepresentativeIsAnOutputWithAnAnswer ==
    /\ [](pc = "consistency done" /\ best_response # NoResponse =>
             /\ \E i \in 1..Len(responses) :
                   /\ responses[i].model = best_response.model
                   /\ responses[i].raw_response = best_response.raw_response
             /\ ConsistencyExtract(best_response.raw_response) # Absent
             /\ ConsistencyExtract(best_response.raw_response) # <<>>)
    /\ [][responses' = responses]_vars

\* Three outputs with different answers that agree numerically: the third,
\* the longest, is returned.
C25_Witness ==
    /\ pc = "consistency done"
    /\ Len(responses) = 3
    /\ best_response = responses[3]
    /\ best_response # responses[1]
    /\ ConsistencyExtract(responses[1].raw_response)
          # ConsistencyExtract(responses[3].raw_response)

\* C26: in every result solve_problem returns, by whichever path of the
\* summarizer or by the except block, the keys of the summary's all_answers
\* are the models of the consolidated responses returned; and when the
\* judge's reply is missing or no JSON, _basic_analysis, given consolidated
\* responses only, finds an answer in each and does not give its status
\* "error".
C26_AllAnswersKeysAreTheConsolidated ==
    outcome = "returned" =>
        /\ DOMAIN result.summary.all_answers = ModelsOf(result.agent_responses)
        /\ \A i \in 1..Len(result.agent_responses) :
              Truthy(SummarizerExtract(result.agent_responses[i].raw_response))
        /\ (Len(sum_responses) >= 2 /\ analysis.kind \in {"none", "text"}) =>
              /\ result.summary = sum_result
              /\ result.summary.status \in {"agreement", "disagreement"}

\* The judge's reply was no JSON, three models were consolidated and the
\* heuristic found them in disagreement.
C26_Witness ==
    /\ outcome = "returned"
    /\ analysis.kind = "text"
    /\ Len(result.agent_responses) = 3
    /\ result.summary.status = "disagreement"
    /\ DOMAIN result.summary.all_answers = {agents[i] : i \in 1..Len(agents)}

\* Every model has had all its runs and its responses have been analysed.
GenerationOver ==
    \A m \in DOMAIN batches : calls[m] = runs_per_model /\ batches[m] # "pending"

\* The judge is called from analyze_responses, two or more consolidated
\* responses at hand, and nothing is generated or consolidated from then on.
JudgeCalledLast ==
    /\ judge_calls' # judge_calls =>
          /\ judge_calls = 0
          /\ judge_calls' = 1
          /\ pc = "summarizing"
          /\ GenerationOver
          /\ Len(sum_responses) >= 2
          /\ ModelsOf(sum_responses) = consolidated
    /\ judge_calls >= 1 =>
          /\ calls' = calls
          /\ batches' = batches
          /\ consolidated' = consolidated

\* C27: in an execution of solve_problem the summarizer calls the judge at
\* most once; the call is made after every agent.solve call and every
\* analyze_model_responses call has returned, and only with two or more
\* consolidated responses; a call that ends with no or one consolidated
\* response has made no judge call, one that ends with more has made one.
C27_JudgeCalledAtMostOnce ==
    /\ [][JudgeCalledLast]_vars
    /\ [](/\ judge_calls <= 1
          /\ judge_calls = 1 =>
                /\ pc \in {"summarizing", "done"}
                /\ GenerationOver
                /\ Cardinality(consolidated) >= 2
          /\ pc = "done" =>
                (judge_calls = 1 <=> Cardinality(consolidated) >= 2))

\* solve_problem returned after one judge call about three consolidated
\* responses, nine agent.solve calls behind it.
C27_Witness ==
    /\ pc = "done"
    /\ outcome = "returned"
    /\ judge_calls = 1
    /\ Cardinality(consolidated) = 3
    /\ \A m \in DOMAIN calls : calls[m] = runs_per_model

====
